------------------------------ MODULE Spec2Model ------------------------------
(* A model of the game-description front end of src/Analizador.py: the regex     *)
(* tokenizer GameLexer, the recursive-descent Parser and Node.to_dict.           *)
(* Python strings are tuples of one-character strings, so that upper(),          *)
(* isupper(), strip() and int() are computed character by character.            *)
EXTENDS Naturals, Sequences, FiniteSets, TLC

VARIABLES code, line_num, line_start, tokens, lexErrors,
          pos, current_token, errors, stack, retval, ast, plain, phase

vars == <<code, line_num, line_start, tokens, lexErrors,
          pos, current_token, errors, stack, retval, ast, plain, phase>>

(* ---------------------------------------------------------------- strings -- *)

(* Token kinds named by the token specification and by the parser.              *)
T_NUMBER == <<"N", "U", "M", "B", "E", "R">>
T_STRING == <<"S", "T", "R", "I", "N", "G">>
T_BOOLEAN == <<"B", "O", "O", "L", "E", "A", "N">>
T_ID == <<"I", "D">>
T_LBRACE == <<"L", "B", "R", "A", "C", "E">>
T_RBRACE == <<"R", "B", "R", "A", "C", "E">>
T_LBRACKET == <<"L", "B", "R", "A", "C", "K", "E", "T">>
T_RBRACKET == <<"R", "B", "R", "A", "C", "K", "E", "T">>
T_LPAREN == <<"L", "P", "A", "R", "E", "N">>
T_RPAREN == <<"R", "P", "A", "R", "E", "N">>
T_EQUAL == <<"E", "Q", "U", "A", "L">>
T_COMMA == <<"C", "O", "M", "M", "A">>
T_SEMICOLON == <<"S", "E", "M", "I", "C", "O", "L", "O", "N">>
T_COLON == <<"C", "O", "L", "O", "N">>
T_COMMENT == <<"C", "O", "M", "M", "E", "N", "T">>
T_NEWLINE == <<"N", "E", "W", "L", "I", "N", "E">>
T_SKIP == <<"S", "K", "I", "P">>
T_MISMATCH == <<"M", "I", "S", "M", "A", "T", "C", "H">>
T_EOF == <<"E", "O", "F">>
T_GAME == <<"G", "A", "M", "E">>
T_JUEGO == <<"J", "U", "E", "G", "O">>

(* Class names and attribute names, as to_dict reads them.                       *)
C_GameNode == <<"G", "a", "m", "e", "N", "o", "d", "e">>
C_BlockNode == <<"B", "l", "o", "c", "k", "N", "o", "d", "e">>
C_AssignNode == <<"A", "s", "s", "i", "g", "n", "N", "o", "d", "e">>
C_ListNode == <<"L", "i", "s", "t", "N", "o", "d", "e">>
C_ObjectNode == <<"O", "b", "j", "e", "c", "t", "N", "o", "d", "e">>
C_FunctionNode == <<"F", "u", "n", "c", "t", "i", "o", "n", "N", "o", "d", "e">>
C_ValueNode == <<"V", "a", "l", "u", "e", "N", "o", "d", "e">>
S_type == <<"t", "y", "p", "e">>
S_name == <<"n", "a", "m", "e">>
S_body == <<"b", "o", "d", "y">>
S_statements == <<"s", "t", "a", "t", "e", "m", "e", "n", "t", "s">>
S_key == <<"k", "e", "y">>
S_value == <<"v", "a", "l", "u", "e">>
S_items == <<"i", "t", "e", "m", "s">>
S_pairs == <<"p", "a", "i", "r", "s">>
S_args == <<"a", "r", "g", "s">>
S_block == <<"b", "l", "o", "c", "k">>
S_true == <<"t", "r", "u", "e">>
S_false == <<"f", "a", "l", "s", "e">>

(* The keyword set of GameLexer.                                                 *)
keywords ==
    { <<"j", "u", "e", "g", "o">>
    , <<"g", "a", "m", "e">>
    , <<"t", "a", "b", "l", "e", "r", "o">>
    , <<"p", "i", "e", "z", "a", "s">>
    , <<"p", "u", "n", "t", "o", "s">>
    , <<"v", "e", "l", "o", "c", "i", "d", "a", "d">>
    , <<"c", "o", "n", "t", "r", "o", "l", "e", "s">>
    , <<"p", "e", "r", "d", "i", "s", "t", "e">>
    , <<"f", "i", "l", "a", "s">>
    , <<"c", "o", "l", "u", "m", "n", "a", "s">>
    , <<"f", "o", "n", "d", "o">>
    , <<"i", "n", "i", "c", "i", "o", "_", "l", "l", "e", "n", "o">>
    , <<"c", "o", "l", "o", "r">>
    , <<"r", "o", "t", "a", "c", "i", "o", "n", "e", "s">>
    , <<"r", "a", "n", "d", "o", "m">>
    , <<"t", "r", "u", "e">>
    , <<"f", "a", "l", "s", "e">>
    , <<"p", "i", "e", "z", "a", "_", "i", "n", "i", "c", "i", "a", "l">>
    , <<"p", "i", "e", "z", "a", "_", "s", "i", "g", "u", "i", "e", "n", "t", "e">>
    , <<"g", "a", "n", "a", "r", "_", "p", "u", "n", "t", "o", "s">>
    , <<"e", "l", "i", "m", "i", "n", "a", "r", "_", "f", "i", "l", "a">>
    , <<"v", "e", "l", "o", "c", "i", "d", "a", "d", "_", "p", "r", "o", "g", "r", "e", "s", "i", "v", "a">>
    , <<"a", "u", "m", "e", "n", "t", "a", "r", "_", "v", "e", "l", "o", "c", "i", "d", "a", "d">>
    , <<"c", "a", "d", "a", "_", "p", "u", "n", "t", "o", "s">>
    , <<"c", "a", "n", "t", "i", "d", "a", "d", "_", "a", "u", "m", "e", "n", "t", "o">>
    , <<"i", "z", "q", "u", "i", "e", "r", "d", "a">>
    , <<"d", "e", "r", "e", "c", "h", "a">>
    , <<"c", "a", "i", "d", "a">>
    , <<"r", "o", "t", "a", "r">>
    , <<"p", "a", "u", "s", "a", "r">>
    , <<"I">>
    , <<"O">>
    , <<"T">>
    , <<"L">>
    , <<"J">>
    , <<"S">>
    , <<"Z">>
    , <<"s", "e", "r", "p", "i", "e", "n", "t", "e">>
    , <<"c", "o", "m", "i", "d", "a">>
    , <<"p", "a", "r", "e", "d", "e", "s">>
    , <<"r", "e", "g", "l", "a", "s">>
    , <<"a", "s", "s", "e", "t", "s">>
    , <<"t", "i", "t", "l", "e">>
    , <<"a", "u", "t", "h", "o", "r">>
    , <<"v", "e", "r", "s", "i", "o", "n">>
    , <<"v", "e", "l", "o", "c", "i", "d", "a", "d", "_", "c", "p", "s">>
    , <<"l", "a", "r", "g", "o", "_", "i", "n", "i", "c", "i", "a", "l">>
    , <<"c", "r", "e", "c", "i", "m", "i", "e", "n", "t", "o", "_", "p", "o", "r", "_", "c", "o", "m", "i", "d", "a">>
    , <<"p", "o", "s", "i", "c", "i", "o", "n", "_", "i", "n", "i", "c", "i", "a", "l">>
    , <<"d", "i", "r", "e", "c", "c", "i", "o", "n", "_", "i", "n", "i", "c", "i", "a", "l">>
    , <<"m", "a", "x", "_", "a", "c", "t", "i", "v", "a">>
    , <<"i", "t", "e", "m", "s">>
    , <<"t", "i", "p", "o">>
    , <<"v", "a", "l", "o", "r", "_", "p", "u", "n", "t", "o", "s">>
    , <<"r", "e", "s", "p", "a", "w", "n", "_", "m", "s">>
    , <<"e", "v", "i", "t", "a", "r", "_", "s", "o", "b", "r", "e", "_", "s", "e", "r", "p", "i", "e", "n", "t", "e">>
    , <<"e", "v", "i", "t", "a", "r", "_", "p", "a", "r", "e", "d", "e", "s">>
    , <<"u", "s", "a", "r", "_", "p", "a", "r", "e", "d", "e", "s">>
    , <<"l", "i", "s", "t", "a">>
    , <<"c", "o", "l", "i", "s", "i", "o", "n", "_", "p", "a", "r", "e", "d">>
    , <<"c", "o", "l", "i", "s", "i", "o", "n", "_", "c", "u", "e", "r", "p", "o">>
    , <<"s", "a", "l", "i", "r", "_", "t", "a", "b", "l", "e", "r", "o">>
    , <<"w", "r", "a", "p", "_", "e", "d", "g", "e", "s">>
    , <<"t", "i", "c", "k", "_", "m", "s">>
    , <<"b", "o", "n", "u", "s", "_", "l", "o", "n", "g", "i", "t", "u", "d", "_", "a", "c", "t", "i", "v", "o">>
    , <<"b", "o", "n", "u", "s", "_", "l", "o", "n", "g", "i", "t", "u", "d", "_", "c", "a", "d", "a", "_", "s", "e", "g", "m", "e", "n", "t", "o", "s">>
    , <<"b", "o", "n", "u", "s", "_", "l", "o", "n", "g", "i", "t", "u", "d", "_", "v", "a", "l", "o", "r">>
    , <<"v", "e", "l", "o", "c", "i", "d", "a", "d", "_", "i", "n", "i", "c", "i", "a", "l", "_", "c", "p", "s">>
    , <<"f", "a", "c", "t", "o", "r", "_", "a", "u", "m", "e", "n", "t", "o">>
    , <<"l", "i", "m", "i", "t", "e", "_", "c", "p", "s">>
    , <<"a", "r", "r", "i", "b", "a">>
    , <<"a", "b", "a", "j", "o">>
    , <<"c", "a", "b", "e", "z", "a">>
    , <<"p", "a", "r", "e", "d">>
    , <<"s", "i", "m", "b", "o", "l", "o", "s">>
    , <<"c", "h", "a", "r", "s", "e", "t">>
    }

LOWER == <<"a", "b", "c", "d", "e", "f", "g", "h", "i", "j", "k", "l", "m", "n", "o", "p", "q", "r", "s", "t", "u", "v", "w", "x", "y", "z">>
UPPER == <<"A", "B", "C", "D", "E", "F", "G", "H", "I", "J", "K", "L", "M", "N", "O", "P", "Q", "R", "S", "T", "U", "V", "W", "X", "Y", "Z">>
DIGITS == <<"0", "1", "2", "3", "4", "5", "6", "7", "8", "9">>

(* ------------------------------------------------------- character classes -- *)

InSeq(c, s) == \E i \in 1..Len(s) : s[i] = c

IndexOf(c, s) == CHOOSE i \in 1..Len(s) : s[i] = c

Range(s) == {s[i] : i \in 1..Len(s)}

DigitChars == Range(DIGITS)

LowerChars == Range(LOWER)

UpperChars == Range(UPPER)

IsDigit(c) == c \in DigitChars

IsLower(c) == c \in LowerChars

IsUpperChar(c) == c \in UpperChars

(* [A-Za-z_] and [A-Za-z0-9_] of the ID pattern.                                *)
IsIdStart(c) == IsLower(c) \/ IsUpperChar(c) \/ c = "_"

IsIdChar(c) == IsIdStart(c) \/ IsDigit(c)

(* Letters outside ASCII that a source text may hold. No token pattern matches  *)
(* them, but \w (and so \b) of a str pattern does.                              *)
NonAsciiLetters == {"é"}

IsWordChar(c) == IsIdChar(c) \/ c \in NonAsciiLetters

IsBlank(c) == c = " " \/ c = "\t"

(* str.upper() and str.isupper(), character by character.                       *)
UpperChar(c) == IF IsLower(c) THEN UPPER[IndexOf(c, LOWER)] ELSE c

StrUpper(s) == [i \in 1..Len(s) |-> UpperChar(s[i])]

StrIsUpper(s) ==
    /\ \E i \in 1..Len(s) : IsUpperChar(s[i]) \/ IsLower(s[i])
    /\ \A i \in 1..Len(s) : ~IsLower(s[i])

(* str.strip(chars) for a single character: it goes from both ends.             *)
RECURSIVE LStrip(_, _)
LStrip(s, c) == IF s # <<>> /\ Head(s) = c THEN LStrip(Tail(s), c) ELSE s

RECURSIVE RStrip(_, _)
RStrip(s, c) ==
    IF s # <<>> /\ s[Len(s)] = c THEN RStrip(SubSeq(s, 1, Len(s) - 1), c) ELSE s

StrStrip(s, c) == RStrip(LStrip(s, c), c)

(* ---------------------------------------------------------- Python values -- *)

None == [py |-> "None"]

IsNone(v) == v.py = "None"

Str(s) == [py |-> "str", v |-> s]

Int(n) == [py |-> "int", v |-> n]

Bool(b) == [py |-> "bool", v |-> b]

(* A float is kept as its integer part and its fraction digits without the      *)
(* trailing zeros, which is what decides equality of two parsed literals.       *)
Float(i, f) == [py |-> "float", v |-> <<i, f>>]

List(xs) == [py |-> "list", v |-> xs]

Tuple(xs) == [py |-> "tuple", v |-> xs]

Dict(kvs) == [py |-> "dict", v |-> kvs]

(* An instance: its class, whether the class derives from Node, and __dict__    *)
(* as the ordered sequence of <<attribute name, value>>.                        *)
Object(cls, isNode, attrs) ==
    [py |-> "object", cls |-> cls, node |-> isNode, dict |-> attrs]

GetAttr(o, a) == LET i == CHOOSE i \in 1..Len(o.dict) : o.dict[i][1] = a
                 IN  o.dict[i][2]

SetAttr(o, a, v) ==
    [o EXCEPT !.dict = [i \in 1..Len(o.dict) |->
                          IF o.dict[i][1] = a THEN <<a, v>> ELSE o.dict[i]]]

(* int(lexeme) and float(lexeme) of a NUMBER lexeme.                            *)
RECURSIVE ParseInt(_)
ParseInt(s) ==
    IF s = <<>> THEN 0
    ELSE 10 * ParseInt(SubSeq(s, 1, Len(s) - 1)) + (IndexOf(s[Len(s)], DIGITS) - 1)

ParseFloat(s) ==
    LET d == IndexOf(".", s)
    IN  Float(ParseInt(SubSeq(s, 1, d - 1)), RStrip(SubSeq(s, d + 1, Len(s)), "0"))

(* ------------------------------------------------------------- AST nodes -- *)

Token(type, lexeme, line, column) ==
    [py |-> "Token", type |-> type, lexeme |-> lexeme, line |-> line, col |-> column]

GameNode(name, body) ==
    Object(C_GameNode, TRUE, << <<S_name, name>>, <<S_body, body>> >>)

BlockNode(name) ==
    Object(C_BlockNode, TRUE, << <<S_name, Str(name)>>, <<S_statements, List(<<>>)>> >>)

AssignNode(key, value) ==
    Object(C_AssignNode, TRUE, << <<S_key, Str(key)>>, <<S_value, value>> >>)

ListNode(items) == Object(C_ListNode, TRUE, << <<S_items, List(items)>> >>)

ObjectNode(pairs) == Object(C_ObjectNode, FALSE, << <<S_pairs, List(pairs)>> >>)

FunctionNode(name, args) ==
    Object(C_FunctionNode, TRUE, << <<S_name, Str(name)>>, <<S_args, List(args)>> >>)

ValueNode(value) == Object(C_ValueNode, TRUE, << <<S_value, value>> >>)

(* list.append on the list held by attribute a of o.                            *)
AppendAttr(o, a, x) == SetAttr(o, a, List(Append(GetAttr(o, a).v, x)))

(* ------------------------------------------------------------- GameLexer -- *)
(* Positions i are 1-based indices into code; a match is reported by the index  *)
(* of its last character, 0 when the pattern does not match at i.               *)

(* The end of the longest run of characters of a class that starts at i.        *)
RunEnd(s, i, InClass(_)) ==
    CHOOSE j \in i..Len(s) :
        /\ \A k \in i..j : InClass(s[k])
        /\ j = Len(s) \/ ~InClass(s[j + 1])

(* NUMBER  \d+(\.\d+)?                                                          *)
MatchNumber(s, i) ==
    IF ~IsDigit(s[i]) THEN 0
    ELSE LET d == RunEnd(s, i, IsDigit)
         IN  IF d + 2 <= Len(s) /\ s[d + 1] = "." /\ IsDigit(s[d + 2])
             THEN RunEnd(s, d + 2, IsDigit)
             ELSE d

(* STRING  "(\\.|[^"])*"  with the backtracking of re: at each character the    *)
(* loop first tries an escape pair, then a single non-quote character, and      *)
(* leaves the loop for the closing quote only when no longer match succeeds.    *)
RECURSIVE StringBody(_, _)
StringBody(s, j) ==
    LET esc == IF j + 1 <= Len(s) /\ s[j] = "\\" /\ s[j + 1] # "\n"
               THEN StringBody(s, j + 2) ELSE 0
        one == IF j <= Len(s) /\ s[j] # "\""
               THEN StringBody(s, j + 1) ELSE 0
    IN  IF esc # 0 THEN esc
        ELSE IF one # 0 THEN one
        ELSE IF j <= Len(s) /\ s[j] = "\"" THEN j
        ELSE 0

MatchString(s, i) == IF s[i] = "\"" THEN StringBody(s, i + 1) ELSE 0

HasPrefixAt(s, i, lit) ==
    /\ i + Len(lit) - 1 <= Len(s)
    /\ \A k \in 1..Len(lit) : s[i + k - 1] = lit[k]

(* \b before a word character at i, and after a word character at e.           *)
BoundaryBefore(s, i) == i = 1 \/ ~IsWordChar(s[i - 1])

BoundaryAfter(s, e) == e = Len(s) \/ ~IsWordChar(s[e + 1])

(* BOOLEAN  \b(true|false)\b                                                    *)
MatchBoolean(s, i) ==
    IF ~BoundaryBefore(s, i) THEN 0
    ELSE IF HasPrefixAt(s, i, S_true) /\ BoundaryAfter(s, i + 3) THEN i + 3
    ELSE IF HasPrefixAt(s, i, S_false) /\ BoundaryAfter(s, i + 4) THEN i + 4
    ELSE 0

(* ID  [A-Za-z_][A-Za-z0-9_]*                                                   *)
MatchId(s, i) == IF IsIdStart(s[i]) THEN RunEnd(s, i, IsIdChar) ELSE 0

(* The single-character patterns, in the order of token_specification.          *)
Punctuation ==
    << <<T_LBRACE, "{">>, <<T_RBRACE, "}">>, <<T_LBRACKET, "[">>,
       <<T_RBRACKET, "]">>, <<T_LPAREN, "(">>, <<T_RPAREN, ")">>,
       <<T_EQUAL, "=">>, <<T_COMMA, ",">>, <<T_SEMICOLON, ";">>, <<T_COLON, ":">> >>

IsPunctuation(c) == \E k \in 1..Len(Punctuation) : Punctuation[k][2] = c

PunctuationKind(c) ==
    Punctuation[CHOOSE k \in 1..Len(Punctuation) : Punctuation[k][2] = c][1]

NotNewline(c) == c # "\n"

(* COMMENT  ##.*|#.*  : from a # to the end of the line.                        *)
MatchCommentOnlyHash(s, i) == IF s[i] = "#" THEN i ELSE 0

MatchComment(s, i) == IF s[i] = "#" THEN RunEnd(s, i, NotNewline) ELSE 0

(* The master pattern: the first alternative that matches at i wins.            *)
Match(s, i) ==
    LET number  == MatchNumber(s, i)
        string  == MatchString(s, i)
        boolean == MatchBoolean(s, i)
        id      == MatchId(s, i)
        comment == MatchComment(s, i)
    IN  IF number # 0 THEN [kind |-> T_NUMBER, end |-> number]
        ELSE IF string # 0 THEN [kind |-> T_STRING, end |-> string]
        ELSE IF boolean # 0 THEN [kind |-> T_BOOLEAN, end |-> boolean]
        ELSE IF id # 0 THEN [kind |-> T_ID, end |-> id]
        ELSE IF IsPunctuation(s[i]) THEN [kind |-> PunctuationKind(s[i]), end |-> i]
        ELSE IF comment # 0 THEN [kind |-> T_COMMENT, end |-> comment]
        ELSE IF s[i] = "\n" THEN [kind |-> T_NEWLINE, end |-> i]
        ELSE IF IsBlank(s[i]) THEN [kind |-> T_SKIP, end |-> RunEnd(s, i, IsBlank)]
        ELSE [kind |-> T_MISMATCH, end |-> i]

LexicalError(lexeme, line, column) ==
    [msg |-> "caracter inesperado", lexeme |-> lexeme, line |-> line, col |-> column]

(* What an identifier's kind becomes.                                           *)
IdKind(lexeme) == IF lexeme \in keywords THEN StrUpper(lexeme) ELSE T_ID

(* One iteration of the loop of tokenize over the lexer state                   *)
(* L = [scan, line_num, line_start, col, tokens, errors]; scan is the offset    *)
(* at which finditer looks for the next match.                                  *)
TokenizeStep(s, L) ==
    LET mo     == Match(s, L.scan + 1)
        lexeme == SubSeq(s, L.scan + 1, mo.end)
        column == (L.scan + 1) - L.line_start
        M      == [L EXCEPT !.scan = mo.end, !.col = column]
    IN  IF mo.kind = T_NEWLINE
        THEN [M EXCEPT !.line_num = L.line_num + 1, !.line_start = mo.end]
        ELSE IF mo.kind \in {T_SKIP, T_COMMENT} THEN M
        ELSE IF mo.kind = T_MISMATCH
        THEN [M EXCEPT !.errors =
                 Append(L.errors, LexicalError(lexeme, L.line_num, column))]
        ELSE [M EXCEPT !.tokens =
                 Append(L.tokens,
                        Token(IF mo.kind = T_ID THEN IdKind(lexeme) ELSE mo.kind,
                              lexeme, L.line_num, column))]

(* The end of tokenize: the EOF token at the last line and column computed.     *)
TokenizeEnd(L) ==
    [L EXCEPT !.tokens = Append(L.tokens, Token(T_EOF, <<>>, L.line_num, L.col))]

LexerInit == [scan |-> 0, line_num |-> 1, line_start |-> 0, col |-> 1,
              tokens |-> <<>>, errors |-> <<>>]

RECURSIVE TokenizeFrom(_, _)
TokenizeFrom(s, L) ==
    IF L.scan < Len(s) THEN TokenizeFrom(s, TokenizeStep(s, L)) ELSE TokenizeEnd(L)

(* GameLexer(code).tokenize(): the tokens and the lexer's error list.           *)
Tokenize(s) == TokenizeFrom(s, LexerInit)

(* ---------------------------------------------------------------- Parser -- *)
(* The fields a parser method changes, as a record p, so that one action can    *)
(* chain the calls a method makes: raised names the exception that left it.     *)

SyntaxError(msg, a, b, line, column) ==
    [msg |-> msg, a |-> a, b |-> b, line |-> line, col |-> column]

Self == [pos |-> pos, current_token |-> current_token, errors |-> errors,
         raised |-> "no"]

Fail(p, e) == [p EXCEPT !.errors = Append(p.errors, e), !.raised = "ParserError"]

Advance(p) ==
    [p EXCEPT !.pos = p.pos + 1,
              !.current_token = IF p.pos + 1 < Len(tokens)
                                THEN tokens[p.pos + 2] ELSE None]

(* expect without its raise: a token of another type, or none, is passed over.  *)
ExpectLenient(p, token_type) == Advance(p)

Expect(p, token_type) ==
    IF IsNone(p.current_token)
    THEN Fail(p, SyntaxError("se esperaba pero se llego al final",
                             token_type, <<>>, 0, 0))
    ELSE IF p.current_token.type # token_type
    THEN Fail(p, SyntaxError("se esperaba pero se encontro", token_type,
                             p.current_token.lexeme,
                             p.current_token.line, p.current_token.col))
    ELSE Advance(p)

(* peek that answers with the current token.                                    *)
PeekCurrent(p) == p.current_token

Peek(p) == IF p.pos + 1 < Len(tokens) THEN tokens[p.pos + 2] ELSE None

IsType(tok, token_type) == ~IsNone(tok) /\ tok.type = token_type

(* The test of a key without its second half: a plain identifier only.          *)
IsNameTokenOnlyId(tok) == tok.type = T_ID

(* tok.type == 'ID' or tok.type.isupper(), the test of a key and of a name.     *)
IsNameToken(tok) == tok.type = T_ID \/ StrIsUpper(tok.type)

(* The optional comma or semicolon after an element.                            *)
SkipOptional(p, token_type) ==
    IF IsType(p.current_token, token_type) THEN Advance(p) ELSE p

(* Call stack frames: the method, where it stands, and its locals.              *)
GameFrame(pc, name) == [fn |-> "parse_game", pc |-> pc, name |-> name]

BlockFrame(pc, block, key) ==
    [fn |-> "parse_block", pc |-> pc, block |-> block, key |-> key]

ValueFrame == [fn |-> "parse_value", pc |-> "start"]

ListFrame(pc, elements) == [fn |-> "parse_list", pc |-> pc, elements |-> elements]

ObjectFrame(pc, pairs, key) ==
    [fn |-> "parse_object", pc |-> pc, pairs |-> pairs, key |-> key]

FunctionFrame(pc, name, args) ==
    [fn |-> "parse_function", pc |-> pc, name |-> name, args |-> args]

Top == stack[Len(stack)]

At(fn, pc) == phase = "parse" /\ stack # <<>> /\ Top.fn = fn /\ Top.pc = pc

Callers == SubSeq(stack, 1, Len(stack) - 1)

(* The top frame moves on to f; it calls callee; it returns.                    *)
Goto(f) == Append(Callers, f)

Call(f, callee) == Append(Goto(f), callee)

LexerVars == <<code, line_num, line_start, tokens, lexErrors>>

(* The effect of a step of a method on the parser: a ParserError unwinds to     *)
(* parse, which returns None; any other exception leaves parse itself.          *)
Step(p, newStack, newRet) ==
    /\ pos' = p.pos
    /\ current_token' = p.current_token
    /\ errors' = p.errors
    /\ IF p.raised = "ParserError"
       THEN stack' = <<>> /\ retval' = None /\ ast' = None /\ phase' = "done"
       ELSE IF p.raised = "AttributeError"
       THEN stack' = <<>> /\ retval' = None /\ ast' = ast /\ phase' = "crashed"
       ELSE stack' = newStack /\ retval' = newRet /\ ast' = ast /\ phase' = phase
    /\ UNCHANGED <<LexerVars, plain>>

(* parser = Parser(tokens); parser.parse() enters parse_game.                   *)
ParserInit ==
    /\ phase = "lexed"
    /\ pos' = 0
    /\ current_token' = tokens[1]
    /\ errors' = <<>>
    /\ stack' = <<GameFrame("start", None)>>
    /\ phase' = "parse"
    /\ UNCHANGED <<LexerVars, retval, ast, plain>>

(* parse_game up to the call of parse_block.                                    *)
GameHeader(p) ==
    IF p.current_token.type \notin {T_GAME, T_JUEGO}
    THEN Fail(p, SyntaxError("debe comenzar con game o juego", <<>>, <<>>, 0, 0))
    ELSE LET p1 == Advance(p)
             named == ~IsNone(p1.current_token)
                      /\ p1.current_token.type \in {T_STRING, T_ID}
         IN  Expect(IF named THEN Advance(p1) ELSE p1, T_LBRACE)

GameName(p) ==
    LET tok == Advance(p).current_token
    IN  IF ~IsNone(tok) /\ tok.type \in {T_STRING, T_ID}
        THEN Str(StrStrip(tok.lexeme, "\"")) ELSE None

ParseGameStart ==
    /\ At("parse_game", "start")
    /\ Step(GameHeader(Self),
            Call(GameFrame("body", GameName(Self)),
                 BlockFrame("loop", BlockNode(S_block), <<>>)),
            None)

(* parse_game after parse_block returned: the closing brace and the GameNode.   *)
ParseGameFinish ==
    /\ At("parse_game", "body")
    /\ LET p == Expect(Self, T_RBRACE)
       IN  /\ pos' = p.pos
           /\ current_token' = p.current_token
           /\ errors' = p.errors
           /\ stack' = <<>>
           /\ retval' = None
           /\ ast' = IF p.raised = "no" THEN GameNode(Top.name, retval) ELSE None
           /\ phase' = "done"
           /\ UNCHANGED <<LexerVars, plain>>

(* parse_block: the loop condition.                                             *)
BlockContinues(tok) == ~IsNone(tok) /\ tok.type \notin {T_RBRACE, T_EOF}

ParseBlockReturn ==
    /\ At("parse_block", "loop")
    /\ ~BlockContinues(current_token)
    /\ Step(Self, Callers, Top.block)

(* key = value: up to the call of parse_value.                                  *)
ParseBlockAssign ==
    /\ At("parse_block", "loop")
    /\ BlockContinues(current_token)
    /\ IsNameToken(current_token)
    /\ IsType(Advance(Self).current_token, T_EQUAL)
    /\ Step(Advance(Advance(Self)),
            Call(BlockFrame("assign", Top.block, current_token.lexeme), ValueFrame),
            None)

(* node = AssignNode(key, value), appended, and the optional semicolon.         *)
ParseBlockAssignRet ==
    /\ At("parse_block", "assign")
    /\ Step(SkipOptional(Self, T_SEMICOLON),
            Goto(BlockFrame("loop",
                            AppendAttr(Top.block, S_statements,
                                       AssignNode(Top.key, retval)),
                            Top.key)),
            None)

(* key { : up to the call of parse_block for the sub-block.                     *)
ParseBlockSub ==
    /\ At("parse_block", "loop")
    /\ BlockContinues(current_token)
    /\ IsNameToken(current_token)
    /\ IsType(Advance(Self).current_token, T_LBRACE)
    /\ Step(Advance(Advance(Self)),
            Call(BlockFrame("sub", Top.block, current_token.lexeme),
                 BlockFrame("loop", BlockNode(S_block), <<>>)),
            None)

(* The return from the sub-block without subblock.name = key.                   *)
ParseBlockSubRetUnnamed ==
    /\ At("parse_block", "sub")
    /\ Step(Expect(Self, T_RBRACE),
            Goto(BlockFrame("loop", AppendAttr(Top.block, S_statements, retval),
                            Top.key)),
            None)

(* subblock.name = key, the append, and the closing brace.                      *)
ParseBlockSubRet ==
    /\ At("parse_block", "sub")
    /\ Step(Expect(Self, T_RBRACE),
            Goto(BlockFrame("loop",
                            AppendAttr(Top.block, S_statements,
                                       SetAttr(retval, S_name, Str(Top.key))),
                            Top.key)),
            None)

(* The two other branches of the loop body: a key followed by neither = nor {   *)
(* (a diagnostic that reads the current token, then one more advance), and a    *)
(* token that is no key (one advance).                                          *)
(* The recovery without its advances: the diagnostic alone.                     *)
BlockRecoverStay(p) ==
    [p EXCEPT !.errors =
        Append(p.errors,
               SyntaxError("se esperaba = o { despues de", p.current_token.lexeme,
                           <<>>, p.current_token.line, p.current_token.col))]

BlockRecover(p) ==
    IF IsNameToken(p.current_token)
    THEN LET p1 == Advance(p)
         IN  IF IsNone(p1.current_token)
             THEN [p1 EXCEPT !.raised = "AttributeError"]
             ELSE Advance([p1 EXCEPT !.errors =
                      Append(p1.errors,
                             SyntaxError("se esperaba = o { despues de",
                                         p.current_token.lexeme, <<>>,
                                         p1.current_token.line,
                                         p1.current_token.col))])
    ELSE Advance(p)

ParseBlockRecover ==
    /\ At("parse_block", "loop")
    /\ BlockContinues(current_token)
    /\ ~(IsNameToken(current_token)
         /\ (\/ IsType(Advance(Self).current_token, T_EQUAL)
             \/ IsType(Advance(Self).current_token, T_LBRACE)))
    /\ Step(BlockRecover(Self), stack, None)

(* parse_value: the literal branches.                                           *)
LiteralValue(tok) ==
    IF tok.type = T_NUMBER
    THEN (IF InSeq(".", tok.lexeme) THEN ParseFloat(tok.lexeme)
          ELSE Int(ParseInt(tok.lexeme)))
    ELSE IF tok.type = T_STRING THEN Str(StrStrip(tok.lexeme, "\""))
    ELSE Bool(tok.lexeme = S_true)

IsLiteral(tok) == ~IsNone(tok) /\ tok.type \in {T_NUMBER, T_STRING, T_BOOLEAN}

ParseValueLiteral ==
    /\ At("parse_value", "start")
    /\ IsLiteral(current_token)
    /\ Step(Advance(Self), Callers, ValueNode(LiteralValue(current_token)))

(* return self.parse_list(): the frame of parse_value hands over to the callee, *)
(* whose result it returns unchanged.                                           *)
ParseValueList ==
    /\ At("parse_value", "start")
    /\ IsType(current_token, T_LBRACKET)
    /\ Step(Self, Goto(ListFrame("start", <<>>)), None)

ParseValueObject ==
    /\ At("parse_value", "start")
    /\ IsType(current_token, T_LBRACE)
    /\ Step(Self, Goto(ObjectFrame("start", <<>>, <<>>)), None)

(* The branch that tells a call from a bare name by the token after it.         *)
IsCall(p) ==
    /\ ~IsNone(p.current_token)
    /\ p.current_token.type \notin
           {T_NUMBER, T_STRING, T_BOOLEAN, T_LBRACKET, T_LBRACE}
    /\ IsNameToken(p.current_token)
    /\ IsType(Peek(p), T_LPAREN)

ParseValueCall ==
    /\ At("parse_value", "start")
    /\ IsCall(Self)
    /\ Step(Self, Goto(FunctionFrame("start", <<>>, <<>>)), None)

(* What is left of parse_value: no token at all, a bare name, and the else      *)
(* branch with its diagnostic and placeholder.                                  *)
ValueOther(p) ==
    LET tok == p.current_token
    IN  IF IsNone(tok)
        THEN Fail(p, SyntaxError("valor inesperado: fin de entrada",
                                 <<>>, <<>>, 0, 0))
        ELSE IF IsNameToken(tok) THEN Advance(p)
        ELSE Advance([p EXCEPT !.errors =
                 Append(p.errors, SyntaxError("valor inesperado", tok.lexeme,
                                              <<>>, tok.line, tok.col))])

ParseValueOther ==
    /\ At("parse_value", "start")
    /\ ~IsLiteral(current_token)
    /\ ~IsType(current_token, T_LBRACKET)
    /\ ~IsType(current_token, T_LBRACE)
    /\ ~IsCall(Self)
    /\ Step(ValueOther(Self), Callers,
            IF IsNone(current_token) THEN None
            ELSE ValueNode(Str(current_token.lexeme)))

(* parse_list                                                                   *)
ParseListStart ==
    /\ At("parse_list", "start")
    /\ Step(Expect(Self, T_LBRACKET), Goto(ListFrame("loop", Top.elements)), None)

ListContinues(tok) == ~IsNone(tok) /\ tok.type # T_RBRACKET

ParseListElement ==
    /\ At("parse_list", "loop")
    /\ ListContinues(current_token)
    /\ Step(Self, Call(ListFrame("element", Top.elements), ValueFrame), None)

ParseListElementRet ==
    /\ At("parse_list", "element")
    /\ Step(SkipOptional(Self, T_COMMA),
            Goto(ListFrame("loop", Append(Top.elements, retval))), None)

ParseListReturn ==
    /\ At("parse_list", "loop")
    /\ ~ListContinues(current_token)
    /\ Step(Expect(Self, T_RBRACKET), Callers, ListNode(Top.elements))

(* parse_object                                                                 *)
ParseObjectStart ==
    /\ At("parse_object", "start")
    /\ Step(Expect(Self, T_LBRACE), Goto(ObjectFrame("loop", Top.pairs, <<>>)), None)

ObjectContinues(tok) == ~IsNone(tok) /\ tok.type # T_RBRACE

(* key = lexeme; expect('ID'); expect('COLON'); then the call of parse_value.   *)
PairHeader(p) ==
    LET p1 == Expect(p, T_ID)
    IN  IF p1.raised # "no" THEN p1 ELSE Expect(p1, T_COLON)

ParseObjectPair ==
    /\ At("parse_object", "loop")
    /\ ObjectContinues(current_token)
    /\ Step(PairHeader(Self),
            Call(ObjectFrame("pair", Top.pairs, current_token.lexeme), ValueFrame),
            None)

ParseObjectPairRet ==
    /\ At("parse_object", "pair")
    /\ Step(SkipOptional(Self, T_COMMA),
            Goto(ObjectFrame("loop",
                             Append(Top.pairs, Tuple(<<Str(Top.key), retval>>)),
                             Top.key)),
            None)

ParseObjectReturn ==
    /\ At("parse_object", "loop")
    /\ ~ObjectContinues(current_token)
    /\ Step(Expect(Self, T_RBRACE), Callers, ObjectNode(Top.pairs))

(* parse_function                                                               *)
ParseFunctionStart ==
    /\ At("parse_function", "start")
    /\ Step(Expect(Advance(Self), T_LPAREN),
            Goto(FunctionFrame("loop", current_token.lexeme, <<>>)), None)

FunctionContinues(tok) == ~IsNone(tok) /\ tok.type # T_RPAREN

ParseFunctionArgument ==
    /\ At("parse_function", "loop")
    /\ FunctionContinues(current_token)
    /\ Step(Self, Call(FunctionFrame("argument", Top.name, Top.args), ValueFrame),
            None)

(* args.append, the optional comma, and the check for the end of the tokens.    *)
ArgumentEnd(p, name) ==
    LET p1 == SkipOptional(p, T_COMMA)
    IN  IF IsNone(p1.current_token)
        THEN Fail(p1, SyntaxError("parentesis no cerrado en llamada a",
                                  name, <<>>, 0, 0))
        ELSE p1

ParseFunctionArgumentRet ==
    /\ At("parse_function", "argument")
    /\ Step(ArgumentEnd(Self, Top.name),
            Goto(FunctionFrame("loop", Top.name, Append(Top.args, retval))), None)

ParseFunctionReturn ==
    /\ At("parse_function", "loop")
    /\ ~FunctionContinues(current_token)
    /\ Step(Expect(Self, T_RPAREN), Callers, FunctionNode(Top.name, Top.args))

(* ---------------------------------------------------------------- inputs -- *)
(* Source texts the model runs on.                                              *)

(* game g { size = [1,2,3] colors: red } *)
Example_list_colon ==
    <<"g", "a", "m", "e", " ", "g", " ", "{", " ", "s", "i", "z", "e", " ",
      "=", " ", "[", "1", ",", "2", ",", "3", "]", " ", "c", "o", "l", "o",
      "r", "s", ":", " ", "r", "e", "d", " ", "}">>

(* game g { a = 1 @ b = 2 } *)
Example_stray ==
    <<"g", "a", "m", "e", " ", "g", " ", "{", " ", "a", " ", "=", " ", "1",
      " ", "@", " ", "b", " ", "=", " ", "2", " ", "}">>

(* game x { tablero = 1 *)
Example_unclosed ==
    <<"g", "a", "m", "e", " ", "x", " ", "{", " ", "t", "a", "b", "l", "e",
      "r", "o", " ", "=", " ", "1">>

(* game g { pieza = random(I,O,T) } *)
Example_call ==
    <<"g", "a", "m", "e", " ", "g", " ", "{", " ", "p", "i", "e", "z", "a",
      " ", "=", " ", "r", "a", "n", "d", "o", "m", "(", "I", ",", "O", ",",
      "T", ")", " ", "}">>

(* game g { pieza = I } *)
Example_name ==
    <<"g", "a", "m", "e", " ", "g", " ", "{", " ", "p", "i", "e", "z", "a",
      " ", "=", " ", "I", " ", "}">>

(* game g { tablero { filas = 10 columnas = 5 } } *)
Example_nested ==
    <<"g", "a", "m", "e", " ", "g", " ", "{", " ", "t", "a", "b", "l", "e",
      "r", "o", " ", "{", " ", "f", "i", "l", "a", "s", " ", "=", " ", "1",
      "0", " ", "c", "o", "l", "u", "m", "n", "a", "s", " ", "=", " ", "5",
      " ", "}", " ", "}">>

(* juego "mi juego" {  a = 1.50; b = "s" # c  c = true } *)
Example_literals ==
    <<"j", "u", "e", "g", "o", " ", "\"", "m", "i", " ", "j", "u", "e", "g",
      "o", "\"", " ", "{", "\n", " ", "a", " ", "=", " ", "1", ".", "5", "0",
      ";", " ", "b", " ", "=", " ", "\"", "s", "\"", " ", "#", " ", "c", "\n",
      " ", "c", " ", "=", " ", "t", "r", "u", "e", " ", "}">>

(* game g { a = {x: 1, y: [{z: false}]} b = f({k: 2}) } *)
Example_object ==
    <<"g", "a", "m", "e", " ", "g", " ", "{", " ", "a", " ", "=", " ", "{",
      "x", ":", " ", "1", ",", " ", "y", ":", " ", "[", "{", "z", ":", " ",
      "f", "a", "l", "s", "e", "}", "]", "}", " ", "b", " ", "=", " ", "f",
      "(", "{", "k", ":", " ", "2", "}", ")", " ", "}">>

(* game g { , a = 1 } *)
Example_comma ==
    <<"g", "a", "m", "e", " ", "g", " ", "{", " ", ",", " ", "a", " ", "=",
      " ", "1", " ", "}">>

(* game g { a = = } *)
Example_equal ==
    <<"g", "a", "m", "e", " ", "g", " ", "{", " ", "a", " ", "=", " ", "=",
      " ", "}">>

(* The bounded inputs: every text of up to MaxFill characters put at a          *)
(* statement, value or argument position, over the characters that make tokens  *)
(* of interest at that position, and every text of up to MaxSrc characters of   *)
(* LexChars, alone or before the word true.                                     *)
MaxFill == 3

MaxSrc == 3

LexChars == {"a", "\"", "#", "/", " ", "\n", "\\", "é"}

Texts(chars, n) == UNION {[1..k -> chars] : k \in 0..n}

Contexts ==
    { [pre |-> <<"g", "a", "m", "e", "{">>, post |-> <<"}">>,
       chars |-> {"a", "1", "=", ",", "{", "}", "[", "]"}],
      [pre |-> <<"g", "a", "m", "e", "{", "a", "=">>, post |-> <<"}">>,
       chars |-> {"a", "(", ")", ",", "{", "}", "[", "]"}],
      [pre |-> <<"g", "a", "m", "e", "{", "a", "=", "f", "(">>,
       post |-> <<")", "}">>,
       chars |-> {"a", "1", "=", ",", "(", ")", "[", "]"}] }

Examples ==
    { Example_list_colon, Example_stray, Example_unclosed, Example_call,
      Example_name, Example_nested, Example_literals, Example_object,
      Example_comma, Example_equal }

Sources ==
    Examples
    \cup UNION {{c.pre \o f \o c.post : f \in Texts(c.chars, MaxFill)} :
                c \in Contexts}
    \cup {f \o t : f \in Texts(LexChars, MaxSrc), t \in {<<>>, S_true}}

(* --------------------------------------------------------------- to_dict -- *)

IsObject(v) == v.py = "object"

IsNodeInstance(v) == IsObject(v) /\ v.node

(* d[k] = v on an insertion-ordered dict.                                       *)
DictSet(d, k, v) ==
    IF \E i \in 1..Len(d.v) : d.v[i][1] = k
    THEN Dict([i \in 1..Len(d.v) |-> IF d.v[i][1] = k THEN <<k, v>> ELSE d.v[i]])
    ELSE Dict(Append(d.v, <<k, v>>))

RECURSIVE NodeToDict(_), ObjectNodeToDict(_), NodeItems(_, _, _), ObjectPairs(_, _, _)

(* v.to_dict() by the class of v.                                               *)
ToDict(v) == IF v.node THEN NodeToDict(v) ELSE ObjectNodeToDict(v)

(* Node.to_dict: the loop over __dict__.items(), from entry i on.               *)
NodeItems(o, i, result) ==
    IF i > Len(o.dict) THEN result
    ELSE LET k == o.dict[i][1]
             v == o.dict[i][2]
             out == IF v.py = "list"
                    THEN List([j \in 1..Len(v.v) |->
                                 IF IsNodeInstance(v.v[j]) THEN ToDict(v.v[j])
                                 ELSE v.v[j]])
                    ELSE IF IsNodeInstance(v) THEN ToDict(v)
                    ELSE v
         IN  NodeItems(o, i + 1, DictSet(result, Str(k), out))

NodeToDict(o) == NodeItems(o, 1, Dict(<< <<Str(S_type), Str(o.cls)>> >>))

(* ObjectNode.to_dict: the comprehension over self.pairs, from pair i on.       *)
ObjectPairs(pairs, i, result) ==
    IF i > Len(pairs) THEN result
    ELSE LET k == pairs[i].v[1]
             v == pairs[i].v[2]
         IN  ObjectPairs(pairs, i + 1,
                         DictSet(result, k, IF IsObject(v) THEN ToDict(v) ELSE v))

ObjectNodeToDict(o) == ObjectPairs(GetAttr(o, S_pairs).v, 1, Dict(<<>>))

(* ------------------------------------------------------- the state machine -- *)

Init ==
    /\ code \in Sources
    /\ line_num = 1
    /\ line_start = 0
    /\ tokens = <<>>
    /\ lexErrors = <<>>
    /\ pos = 0
    /\ current_token = None
    /\ errors = <<>>
    /\ stack = <<>>
    /\ retval = None
    /\ ast = None
    /\ plain = None
    /\ phase = "lex"

ParserVars == <<pos, current_token, errors, stack, retval, ast, plain>>

(* tokens = lexer.tokenize(): the whole loop, and what it leaves in the lexer.  *)
TokenizeCall ==
    /\ phase = "lex"
    /\ LET L == Tokenize(code)
       IN  /\ line_num' = L.line_num
           /\ line_start' = L.line_start
           /\ tokens' = L.tokens
           /\ lexErrors' = L.errors
    /\ phase' = "lexed"
    /\ UNCHANGED <<code, ParserVars>>

(* The driver: if ast: ... ast.to_dict()                                        *)
Serialize ==
    /\ phase = "done"
    /\ ~IsNone(ast)
    /\ plain' = ToDict(ast)
    /\ phase' = "printed"
    /\ UNCHANGED <<LexerVars, pos, current_token, errors, stack, retval, ast>>

Next ==
    \/ TokenizeCall
    \/ ParserInit
    \/ ParseGameStart
    \/ ParseGameFinish
    \/ ParseBlockReturn
    \/ ParseBlockAssign
    \/ ParseBlockAssignRet
    \/ ParseBlockSub
    \/ ParseBlockSubRet
    \/ ParseBlockRecover
    \/ ParseValueLiteral
    \/ ParseValueList
    \/ ParseValueObject
    \/ ParseValueCall
    \/ ParseValueOther
    \/ ParseListStart
    \/ ParseListElement
    \/ ParseListElementRet
    \/ ParseListReturn
    \/ ParseObjectStart
    \/ ParseObjectPair
    \/ ParseObjectPairRet
    \/ ParseObjectReturn
    \/ ParseFunctionStart
    \/ ParseFunctionArgument
    \/ ParseFunctionArgumentRet
    \/ ParseFunctionReturn
    \/ Serialize

Spec == Init /\ [][Next]_vars

(* ---------------------------------------------------------------- claims -- *)

Lexed == phase \notin {"lex"}

Done == phase \in {"done", "printed"}

(* The matches of the master pattern over a text, in order.                     *)
RECURSIVE ScanFrom(_, _)
ScanFrom(s, i) ==
    IF i > Len(s) THEN <<>>
    ELSE LET mo == Match(s, i)
         IN  <<[kind |-> mo.kind, start |-> i, end |-> mo.end]>>
             \o ScanFrom(s, mo.end + 1)

Scan(s) == ScanFrom(s, 1)

MismatchPositions(s) ==
    {Scan(s)[k].start : k \in {k \in 1..Len(Scan(s)) : Scan(s)[k].kind = T_MISMATCH}}

(* The grammar of the language, read as a recogniser over a token sequence: an  *)
(* operator returns the index after what it recognised at i, or 0.              *)
TypeAt(ts, i) == IF i >= 1 /\ i <= Len(ts) THEN ts[i].type ELSE <<>>

IsKeywordToken(tok) == tok.lexeme \in keywords /\ tok.type = StrUpper(tok.lexeme)

IsIdOrKeyword(tok) == tok.type = T_ID \/ IsKeywordToken(tok)

IsKeyAt(ts, i) == i >= 1 /\ i <= Len(ts) /\ IsIdOrKeyword(ts[i])

RECURSIVE GValue(_, _), GValues(_, _, _), GPairs(_, _), GBlock(_, _)

(* Value (',' Value)* and the closing token.                                    *)
GValues(ts, i, close) ==
    LET j == GValue(ts, i)
    IN  IF j = 0 THEN 0
        ELSE IF TypeAt(ts, j) = T_COMMA THEN GValues(ts, j + 1, close)
        ELSE IF TypeAt(ts, j) = close THEN j + 1
        ELSE 0

(* Pair (',' Pair)* '}' with Pair := ID ':' Value.                              *)
GPairs(ts, i) ==
    IF TypeAt(ts, i) # T_ID \/ TypeAt(ts, i + 1) # T_COLON THEN 0
    ELSE LET j == GValue(ts, i + 2)
         IN  IF j = 0 THEN 0
             ELSE IF TypeAt(ts, j) = T_COMMA THEN GPairs(ts, j + 1)
             ELSE IF TypeAt(ts, j) = T_RBRACE THEN j + 1
             ELSE 0

GValue(ts, i) ==
    IF TypeAt(ts, i) \in {T_NUMBER, T_STRING, T_BOOLEAN} THEN i + 1
    ELSE IF TypeAt(ts, i) = T_LBRACKET
    THEN (IF TypeAt(ts, i + 1) = T_RBRACKET THEN i + 2
          ELSE GValues(ts, i + 1, T_RBRACKET))
    ELSE IF TypeAt(ts, i) = T_LBRACE
    THEN (IF TypeAt(ts, i + 1) = T_RBRACE THEN i + 2 ELSE GPairs(ts, i + 1))
    ELSE IF IsKeyAt(ts, i)
    THEN (IF TypeAt(ts, i + 1) # T_LPAREN THEN i + 1
          ELSE IF TypeAt(ts, i + 2) = T_RPAREN THEN i + 3
          ELSE GValues(ts, i + 2, T_RPAREN))
    ELSE 0

(* Statement*: the index of the first token that starts no statement.           *)
GBlock(ts, i) ==
    IF ~IsKeyAt(ts, i) THEN i
    ELSE IF TypeAt(ts, i + 1) = T_EQUAL
    THEN LET j == GValue(ts, i + 2)
         IN  IF j = 0 THEN 0
             ELSE GBlock(ts, IF TypeAt(ts, j) = T_SEMICOLON THEN j + 1 ELSE j)
    ELSE IF TypeAt(ts, i + 1) = T_LBRACE
    THEN LET j == GBlock(ts, i + 2)
         IN  IF j = 0 \/ TypeAt(ts, j) # T_RBRACE THEN 0 ELSE GBlock(ts, j + 1)
    ELSE 0

(* Game := GAME [ STRING | ID ] '{' Block '}' and then the end of the text.     *)
GGame(ts) ==
    LET open == IF TypeAt(ts, 2) \in {T_STRING, T_ID} THEN 3 ELSE 2
        j == GBlock(ts, open + 1)
    IN  /\ TypeAt(ts, 1) \in {T_GAME, T_JUEGO}
        /\ TypeAt(ts, open) = T_LBRACE
        /\ j # 0
        /\ TypeAt(ts, j) = T_RBRACE
        /\ TypeAt(ts, j + 1) = T_EOF

Conforms == Lexed /\ MismatchPositions(code) = {} /\ GGame(tokens)

(* C1: for every source text that conforms to the grammar, parse on the result  *)
(* of tokenize returns a Game node, and the lexer's and the parser's error      *)
(* lists are both empty.                                                        *)
C1_ValidInputParses ==
    (Done /\ Conforms) =>
        /\ ~IsNone(ast)
        /\ ast.cls = C_GameNode
        /\ errors = <<>>
        /\ lexErrors = <<>>

(* A conforming text with a call, a list and an object has been parsed.         *)
C1_Witness ==
    /\ Done
    /\ Conforms
    /\ \E i \in 1..Len(tokens) : tokens[i].type = T_LPAREN
    /\ \E i \in 1..Len(tokens) : tokens[i].type = T_LBRACKET
    /\ \E i \in 1..Len(tokens) : tokens[i].type = T_COLON
    /\ ~IsNone(ast)

(* The statements of the root block of a returned Game.                         *)
RootStatements == GetAttr(GetAttr(ast, S_body), S_statements).v

(* C2: for the input game g { size = [1,2,3] colors: red } parse returns a Game *)
(* whose root block holds the Assign size with the List of 1, 2, 3, and the     *)
(* parser's error list is not empty: the key followed by neither = nor { is     *)
(* recorded and does not abort the parse.                                       *)
C2_ColonRecovers ==
    (Done /\ code = Example_list_colon) =>
        /\ ~IsNone(ast)
        /\ \E k \in 1..Len(RootStatements) :
              RootStatements[k] =
                  AssignNode(<<"s", "i", "z", "e">>,
                             ListNode(<<ValueNode(Int(1)), ValueNode(Int(2)),
                                        ValueNode(Int(3))>>))
        /\ errors # <<>>

KindLexemes(ts) == [i \in 1..Len(ts) |-> <<ts[i].type, ts[i].lexeme>>]

ReplaceAt(s, i, c) == [s EXCEPT ![i] = c]

(* C3: each character that matches no token pattern adds exactly one lexical    *)
(* error and no token, and the tokens (kind and lexeme, in order) are those of  *)
(* the text with that character replaced by a space; game g { a = 1 @ b = 2 }   *)
(* gives one lexical error and the assignments a = 1 and b = 2 in that order.   *)
C3_MismatchIsSkipped ==
    /\ (phase = "lexed") =>
          /\ Len(lexErrors) = Cardinality(MismatchPositions(code))
          /\ \A i \in MismatchPositions(code) :
                KindLexemes(tokens) =
                    KindLexemes(Tokenize(ReplaceAt(code, i, " ")).tokens)
    /\ (Done /\ code = Example_stray) =>
          /\ Len(lexErrors) = 1
          /\ ~IsNone(ast)
          /\ RootStatements = <<AssignNode(<<"a">>, ValueNode(Int(1))),
                                AssignNode(<<"b">>, ValueNode(Int(2)))>>

(* What to_dict may hold: string-keyed maps, sequences and scalar literals.     *)
RECURSIVE IsPlain(_)
IsPlain(v) ==
    IF v.py \in {"int", "float", "str", "bool", "None"} THEN TRUE
    ELSE IF v.py = "list" THEN \A i \in 1..Len(v.v) : IsPlain(v.v[i])
    ELSE IF v.py = "dict"
    THEN \A i \in 1..Len(v.v) : v.v[i][1].py = "str" /\ IsPlain(v.v[i][2])
    ELSE FALSE

(* C4: to_dict on the root of every AST parse returns is built only from        *)
(* string-keyed maps, sequences and scalar literals: no node object remains,    *)
(* also when an Object is the value of an Assign or an element of a List or of  *)
(* a call's arguments.                                                          *)
C4_ToDictIsPlain == (phase = "printed") => IsPlain(plain)

Prefix(s, k) == SubSeq(s, 1, k)

Suffix(s, k) == SubSeq(s, k + 1, Len(s))

IsWhitespace(w) == \A i \in 1..Len(w) : w[i] \in {" ", "\t", "\n"}

IsOneLine(w) == \A i \in 1..Len(w) : w[i] # "\n"

IsHashComment(w) == Len(w) >= 1 /\ w[1] = "#" /\ IsOneLine(w)

IsSlashComment(w) == Len(w) >= 2 /\ w[1] = "/" /\ w[2] = "/" /\ IsOneLine(w)

(* The same tokens in the same order, the position of the final EOF apart.      *)
SameButEofPosition(ts, us) ==
    /\ Len(ts) = Len(us)
    /\ \A i \in 1..(Len(ts) - 1) : ts[i] = us[i]
    /\ ts[Len(ts)].type = us[Len(us)].type
    /\ ts[Len(ts)].lexeme = us[Len(us)].lexeme

EofReached ==
    phase = "parse" /\ (IsNone(current_token) \/ current_token.type = T_EOF)

(* The token consumed last is a closing brace that is not the end of the text.  *)
ClosedBeforeEof ==
    pos >= 1 /\ pos < Len(tokens) /\ tokens[pos].type = T_RBRACE

(* C6: whenever the tokens reach EOF before the closing brace of the root block *)
(* has been consumed, parse returns None and the parser's error list holds a    *)
(* diagnostic: from EOF the parser only stays at EOF or aborts, and a Game is   *)
(* returned only after a closing brace was consumed before EOF.                 *)
C6_EofBeforeClose ==
    /\ [][EofReached =>
             \/ EofReached'
             \/ phase' = "done" /\ IsNone(ast') /\ errors' # <<>>]_vars
    /\ []((Done /\ ~ClosedBeforeEof) => (IsNone(ast) /\ errors # <<>>))

(* game x { tablero = 1 has been parsed: the statement was read and the parse   *)
(* ended at EOF.                                                                *)
C6_Witness ==
    /\ phase = "done"
    /\ code = Example_unclosed
    /\ IsType(current_token, T_EOF)
    /\ pos = Len(tokens) - 1
    /\ IsNone(ast)
    /\ errors # <<>>

(* The AST the grammar gives a conforming token sequence, read off the tokens:  *)
(* a name followed by ( is a call of the values up to its ), any other name is  *)
(* a Value of its lexeme. An operator returns the node and the index after it.  *)
RECURSIVE RefValue(_, _), RefValues(_, _, _, _), RefPairs(_, _, _), RefBlock(_, _, _)

RefValues(ts, i, close, acc) ==
    IF TypeAt(ts, i) = close THEN [node |-> acc, next |-> i + 1]
    ELSE LET v == RefValue(ts, i)
         IN  RefValues(ts, IF TypeAt(ts, v.next) = T_COMMA THEN v.next + 1
                           ELSE v.next,
                       close, Append(acc, v.node))

RefPairs(ts, i, acc) ==
    IF TypeAt(ts, i) = T_RBRACE THEN [node |-> acc, next |-> i + 1]
    ELSE LET v == RefValue(ts, i + 2)
         IN  RefPairs(ts, IF TypeAt(ts, v.next) = T_COMMA THEN v.next + 1
                          ELSE v.next,
                      Append(acc, Tuple(<<Str(ts[i].lexeme), v.node>>)))

RefValue(ts, i) ==
    IF IsLiteral(ts[i])
    THEN [node |-> ValueNode(LiteralValue(ts[i])), next |-> i + 1]
    ELSE IF TypeAt(ts, i) = T_LBRACKET
    THEN LET r == RefValues(ts, i + 1, T_RBRACKET, <<>>)
         IN  [node |-> ListNode(r.node), next |-> r.next]
    ELSE IF TypeAt(ts, i) = T_LBRACE
    THEN LET r == RefPairs(ts, i + 1, <<>>)
         IN  [node |-> ObjectNode(r.node), next |-> r.next]
    ELSE IF TypeAt(ts, i + 1) = T_LPAREN
    THEN LET r == RefValues(ts, i + 2, T_RPAREN, <<>>)
         IN  [node |-> FunctionNode(ts[i].lexeme, r.node), next |-> r.next]
    ELSE [node |-> ValueNode(Str(ts[i].lexeme)), next |-> i + 1]

RefBlock(ts, i, acc) ==
    IF ~IsKeyAt(ts, i) THEN [node |-> acc, next |-> i]
    ELSE IF TypeAt(ts, i + 1) = T_EQUAL
    THEN LET v == RefValue(ts, i + 2)
         IN  RefBlock(ts, IF TypeAt(ts, v.next) = T_SEMICOLON THEN v.next + 1
                          ELSE v.next,
                      Append(acc, AssignNode(ts[i].lexeme, v.node)))
    ELSE LET b == RefBlock(ts, i + 2, <<>>)
         IN  RefBlock(ts, b.next + 1,
                      Append(acc, Object(C_BlockNode, TRUE,
                                         << <<S_name, Str(ts[i].lexeme)>>,
                                            <<S_statements, List(b.node)>> >>)))

RefStatements(ts) ==
    RefBlock(ts, IF TypeAt(ts, 2) \in {T_STRING, T_ID} THEN 4 ELSE 3, <<>>).node

(* The function calls anywhere in a value.                                      *)
RECURSIVE CallsIn(_)
CallsIn(v) ==
    IF v.py \in {"list", "tuple"} THEN UNION {CallsIn(v.v[k]) : k \in 1..Len(v.v)}
    ELSE IF v.py # "object" THEN {}
    ELSE (IF v.cls = C_FunctionNode THEN {v} ELSE {})
         \cup UNION {CallsIn(v.dict[k][2]) : k \in 1..Len(v.dict)}

(* What parse_value is about to read is a name: an identifier or a keyword.     *)
AtNameValue ==
    /\ At("parse_value", "start")
    /\ ~IsNone(current_token)
    /\ IsIdOrKeyword(current_token)

(* C7: at a value position an identifier or keyword is parsed as a call, named  *)
(* by its lexeme and holding the values up to the matching ) in source order,   *)
(* if and only if the token right after it is (; otherwise it is parsed as a    *)
(* Value of the raw lexeme and exactly one token is consumed. So random(I,O,T)  *)
(* gives a call named random with the three Values I, O, T and I gives a Value. *)
C7_CallIffParen ==
    /\ [][AtNameValue =>
             IF TypeAt(tokens, pos + 2) = T_LPAREN
             THEN /\ stack' = Goto(FunctionFrame("start", <<>>, <<>>))
                  /\ pos' = pos
                  /\ errors' = errors
             ELSE /\ stack' = Callers
                  /\ retval' = ValueNode(Str(current_token.lexeme))
                  /\ pos' = pos + 1
                  /\ errors' = errors]_vars
    /\ []((Done /\ Conforms) =>
            /\ ~IsNone(ast)
            /\ RootStatements = RefStatements(tokens))
    /\ []((Done /\ code = Example_call) =>
            /\ ~IsNone(ast)
            /\ RootStatements =
                 <<AssignNode(<<"p", "i", "e", "z", "a">>,
                              FunctionNode(<<"r", "a", "n", "d", "o", "m">>,
                                           <<ValueNode(Str(<<"I">>)),
                                             ValueNode(Str(<<"O">>)),
                                             ValueNode(Str(<<"T">>))>>))>>)
    /\ []((Done /\ code = Example_name) =>
            /\ ~IsNone(ast)
            /\ RootStatements =
                 <<AssignNode(<<"p", "i", "e", "z", "a">>, ValueNode(Str(<<"I">>)))>>)

(* A conforming text has been parsed into a call that holds a call.            *)
C7_Witness ==
    /\ Done
    /\ Conforms
    /\ ~IsNone(ast)
    /\ \E f \in CallsIn(ast) :
          \E k \in 1..Len(GetAttr(f, S_args).v) :
             GetAttr(f, S_args).v[k].cls = C_FunctionNode

(* The statements of the block a frame of parse_block is filling.               *)
StatementsOf(frame) == GetAttr(frame.block, S_statements).v

(* What parse_block is about to read is key { .                                 *)
AtSubBlock ==
    /\ At("parse_block", "loop")
    /\ BlockContinues(current_token)
    /\ IsIdOrKeyword(current_token)
    /\ TypeAt(tokens, pos + 2) = T_LBRACE

(* The blocks anywhere in a value, each as often as it occurs.                  *)
RECURSIVE BlockCount(_)
SumOver(f, n) ==
    LET S[k \in 0..n] == IF k = 0 THEN 0 ELSE S[k - 1] + f[k] IN S[n]

BlockCount(v) ==
    IF v.py \in {"list", "tuple"}
    THEN SumOver([k \in 1..Len(v.v) |-> BlockCount(v.v[k])], Len(v.v))
    ELSE IF v.py # "object" THEN 0
    ELSE (IF v.cls = C_BlockNode THEN 1 ELSE 0)
         + SumOver([k \in 1..Len(v.dict) |-> BlockCount(v.dict[k][2])],
                   Len(v.dict))

(* The statement openings key { among the tokens of a conforming text: those    *)
(* after the opening brace of the root block.                                   *)
SubBlockOpenings(ts) ==
    LET open == IF TypeAt(ts, 2) \in {T_STRING, T_ID} THEN 3 ELSE 2
    IN  Cardinality({i \in (open + 1)..(Len(ts) - 1) :
                        IsIdOrKeyword(ts[i]) /\ ts[i + 1].type = T_LBRACE})

(* C8: for every statement key { ... } in a block the parser appends to the     *)
(* enclosing block's statements, in source order, exactly one Block whose name  *)
(* is the key's lexeme and whose statements are those parsed between the        *)
(* braces. So game g { tablero { filas = 10 columnas = 5 } } gives a Block      *)
(* named tablero with two Assigns as the only statement of the body.            *)
C8_SubBlockAppended ==
    /\ [][AtSubBlock =>
             /\ pos' = pos + 2
             /\ stack' = Call(BlockFrame("sub", Top.block, current_token.lexeme),
                              BlockFrame("loop", BlockNode(S_block), <<>>))]_vars
    /\ [][(At("parse_block", "sub") /\ phase' = "parse") =>
             /\ Len(stack') = Len(stack)
             /\ Top'.fn = "parse_block"
             /\ StatementsOf(Top') =
                  Append(StatementsOf(Top),
                         Object(C_BlockNode, TRUE,
                                << <<S_name, Str(Top.key)>>,
                                   <<S_statements,
                                     GetAttr(retval, S_statements)>> >>))]_vars
    /\ []((Done /\ Conforms) =>
            /\ ~IsNone(ast)
            /\ BlockCount(GetAttr(ast, S_body)) = 1 + SubBlockOpenings(tokens))
    /\ []((Done /\ code = Example_nested) =>
            /\ ~IsNone(ast)
            /\ RootStatements =
                 <<Object(C_BlockNode, TRUE,
                          << <<S_name, Str(<<"t", "a", "b", "l", "e", "r", "o">>)>>,
                             <<S_statements,
                               List(<<AssignNode(<<"f", "i", "l", "a", "s">>,
                                                 ValueNode(Int(10))),
                                      AssignNode(<<"c", "o", "l", "u", "m", "n",
                                                   "a", "s">>,
                                                 ValueNode(Int(5)))>>)>> >>)>>)

(* A sub-block with statements has been closed and appended under its key.      *)
C8_Witness ==
    /\ At("parse_block", "loop")
    /\ StatementsOf(Top) # <<>>
    /\ LET last == StatementsOf(Top)[Len(StatementsOf(Top))]
       IN  /\ last.cls = C_BlockNode
           /\ GetAttr(last, S_name) # Str(S_block)
           /\ Len(GetAttr(last, S_statements).v) >= 2

(* What parse_block is about to read is a token that cannot be a key: of a      *)
(* structural, punctuation or literal kind.                                     *)
AtStrayToken ==
    /\ At("parse_block", "loop")
    /\ BlockContinues(current_token)
    /\ ~IsIdOrKeyword(current_token)

(* C9: a token of a structural, punctuation or literal kind at statement        *)
(* position is silently skipped: exactly one token is passed, no diagnostic is  *)
(* appended and no statement is added.                                          *)
C9_StraySkipped ==
    [][AtStrayToken =>
          /\ pos' = pos + 1
          /\ errors' = errors
          /\ stack' = stack]_vars

(* C10: when the token at a value position is none of NUMBER, STRING, BOOLEAN,  *)
(* [, {, an identifier or a keyword, parse_value appends a diagnostic, passes   *)
(* exactly one token and returns a Value of the raw lexeme without aborting.    *)
C10_PlaceholderWithDiagnostic ==
    [][(/\ At("parse_value", "start")
        /\ ~IsNone(current_token)
        /\ ~IsLiteral(current_token)
        /\ current_token.type \notin {T_LBRACKET, T_LBRACE}
        /\ ~IsIdOrKeyword(current_token)) =>
          /\ Len(errors') = Len(errors) + 1
          /\ pos' = pos + 1
          /\ phase' = "parse"
          /\ stack' = Callers
          /\ retval' = ValueNode(Str(current_token.lexeme))]_vars

(* The calls whose ( has been consumed and whose ) has not: their frames.       *)
OpenCalls ==
    {k \in 1..Len(stack) :
        stack[k].fn = "parse_function" /\ stack[k].pc \in {"loop", "argument"}}

(* The call whose argument list the parser is in: the innermost open one.       *)
InnermostCall ==
    stack[CHOOSE k \in OpenCalls : \A j \in OpenCalls : j <= k]

(* The end of the tokens has been reached inside the argument list of a call.   *)
EofInCall ==
    /\ phase = "parse"
    /\ OpenCalls # {}
    /\ IsNone(current_token) \/ current_token.type = T_EOF

(* The unclosed-parenthesis diagnostic that names a call is in an error list.   *)
HasUnclosedCall(errs, name) ==
    \E i \in 1..Len(errs) :
       /\ errs[i].msg = "parentesis no cerrado en llamada a"
       /\ errs[i].a = name

(* C11: whenever the end of the tokens is reached inside the argument list of   *)
(* a call before its ) has been found, parse returns None and the parser's      *)
(* error list holds the unclosed-parenthesis diagnostic naming that call,       *)
(* whatever the unfinished argument list holds: from such a state the parser    *)
(* only stays in one or ends the parse that way.                                *)
C11_UnclosedCallNamed ==
    [][EofInCall =>
          \/ EofInCall'
          \/ /\ phase' = "done"
             /\ IsNone(ast')
             /\ HasUnclosedCall(errors', InnermostCall.name)]_vars

(* The parse has been aborted: parse caught ParserError and returned None.      *)
Aborted == phase = "done" /\ IsNone(ast)

(* The parser is at the head of the loop of fn and the loop goes on.            *)
AtLoopHead(fn) ==
    /\ At(fn, "loop")
    /\ IF fn = "parse_block" THEN BlockContinues(current_token)
       ELSE IF fn = "parse_list" THEN ListContinues(current_token)
       ELSE IF fn = "parse_object" THEN ObjectContinues(current_token)
       ELSE FunctionContinues(current_token)

(* The parser is at the first statement of parse_list, parse_object or          *)
(* parse_function, which parse_value has handed over to.                        *)
AtCalleeStart ==
    /\ phase = "parse"
    /\ stack # <<>>
    /\ Top.fn \in {"parse_list", "parse_object", "parse_function"}
    /\ Top.pc = "start"

(* How far a frame is from the next token it consumes, in steps that consume    *)
(* none: after a callee returned, at a loop head, at the start of parse_value,  *)
(* right before a token is consumed.                                            *)
PcRank(frame) ==
    IF frame.pc \in {"assign", "element", "pair", "argument"} THEN 4
    ELSE IF frame.pc = "loop" THEN 3
    ELSE IF frame.fn = "parse_value" THEN 2
    ELSE IF frame.fn = "parse_game" /\ frame.pc = "start" THEN 4
    ELSE 1

(* A measure of what is left of the parse.                                      *)
Variant == 5 * (Len(tokens) - pos) + PcRank(Top)

(* C12: for every token sequence that ends in a single EOF token parse          *)
(* terminates: the position never decreases and never exceeds the number of     *)
(* tokens, the current token is the token at the position or none past the      *)
(* last one and is never dereferenced while none, every iteration of the loops  *)
(* of parse_block, parse_list, parse_object and parse_function strictly         *)
(* increases the position or aborts the parse (an iteration of parse_list or    *)
(* parse_function calls parse_value, which consumes a token or aborts in its    *)
(* first step or in the first step of the method it hands over to), every step  *)
(* of the parse decreases a measure that is never negative, and the parser is   *)
(* never stuck.                                                                 *)
C12_ParseTerminates ==
    /\ [](pos <= Len(tokens) \/ phase = "lex")
    /\ [](phase # "crashed")
    /\ [](phase = "parse" =>
            /\ stack # <<>>
            /\ IF pos < Len(tokens) THEN current_token = tokens[pos + 1]
               ELSE IsNone(current_token)
            /\ \A k \in 1..Len(tokens) :
                  (tokens[k].type = T_EOF) <=> (k = Len(tokens))
            /\ ENABLED Next)
    /\ [][pos' >= pos]_vars
    /\ [][(AtLoopHead("parse_block") \/ AtLoopHead("parse_object")) =>
             (pos' > pos \/ Aborted')]_vars
    /\ [][(AtLoopHead("parse_list") \/ AtLoopHead("parse_function")) =>
             (Top'.fn = "parse_value" /\ Len(stack') = Len(stack) + 1)]_vars
    /\ [][At("parse_value", "start") =>
             (pos' > pos \/ Aborted' \/ (AtCalleeStart' /\ Len(stack') = Len(stack)))]_vars
    /\ [][AtCalleeStart => (pos' > pos \/ Aborted')]_vars
    /\ [][(phase = "parse" /\ phase' = "parse") =>
             (Variant' < Variant /\ Variant' >= 0)]_vars

(* A parse of several statements has ended past the last token: the position    *)
(* equals the number of tokens and the current token is none.                   *)
C12_Witness ==
    /\ phase = "done"
    /\ Len(tokens) >= 6
    /\ pos = Len(tokens)
    /\ IsNone(current_token)
    /\ errors # <<>>
=============================================================================
